---- MODULE Spec2Model ----
(***************************************************************************)
(* Optimistic-concurrency synchronisation engine of story-plotter:         *)
(*   - the PUT /api/projects/[projectId] handler and its storage,          *)
(*   - the zustand project store of each editing session,                  *)
(*   - the useAutoSave scheduler (debounce + max-staleness + flush),       *)
(*   - the useConflictResolution hook (keep local / keep server / merge).  *)
(* Timestamps are integers standing for ISO strings produced by            *)
(* toISOString(): equal strings <=> equal integers, later <=> greater.     *)
(***************************************************************************)
EXTENDS Integers, Sequences, FiniteSets, TLC

\* ---------------------------------------------------------------- bounds
Sessions == {"A", "B"}          \* two tabs / devices of the one writer
Ext == "X"                      \* any other HTTP client of the PUT endpoint
Clients == Sessions \cup {Ext}

MaxTime == 2                    \* the clock runs 1..MaxTime (the project was created at 0)
MaxOps == 4                     \* user operations (project loads and edits), all sessions together
MaxExt == 2                     \* PUT requests issued by the external client
MaxVersion == 3                 \* the handler accepts writes while stored.version < MaxVersion
MaxId == 3                      \* entity ids 1..MaxId offered to the resolver
MaxStamp == 1                   \* entity updatedAt values 0..MaxStamp offered to the resolver
MaxNow == 7                     \* the browser clock runs 0..MaxNow (units of 1000 ms)
MaxSnapTime == 11               \* the clock runs 1..MaxSnapTime while snapshots are taken
MaxBranches == 2                \* the branch endpoint creates branches while fewer are stored

NullTime == 0 - 1               \* lastKnownTimestamp: null
NoDate == 0 - 2                 \* an entity without updatedAt (new Date(undefined))
Times == 0 .. MaxTime
Ids == 1 .. MaxId
Stamps == 0 .. MaxStamp
Titles == {"t0", "t1"}
UserId == "u1"

\* ------------------------------------------------------------- documents
Collections == {"characters", "scenes", "plotlines", "locations", "notes"}

Entity(i, u, v) == [id |-> i, updatedAt |-> u, val |-> v]

\* route.ts:374-382  the StoryBranch created by POST branch.
NewBranch(id, sceneId, now) ==
  [id |-> id, branchPointSceneId |-> sceneId, updatedAt |-> now, val |-> "v0"]

\* The project created by POST /api/projects: empty, version 1.
EmptyProject ==
  [id |-> "p1", title |-> "t0", description |-> "d0", genre |-> "g0",
   settings |-> "s0",
   characters |-> <<>>, scenes |-> <<>>, plotlines |-> <<>>,
   locations |-> <<>>, notes |-> <<>>,
   timeline |-> [events |-> <<>>, viewMode |-> "linear"],
   branches |-> <<>>, archived |-> FALSE,
   updatedAt |-> 0, updatedBy |-> UserId, version |-> 1]

\* `project: null` of the store.
NullProject == [EmptyProject EXCEPT !.id = "null", !.version = 0]

IsNull(p) == p.id = "null"

\* ----------------------------------------------------------- the state
VARIABLES
  stored,         \* server: the project.json object of the project
  clock,          \* server: wall clock read by new Date()
  att,            \* per client: the PUT requests in flight, oldest first
  store,          \* per session: zustand state {project, isDirty, ...}
  isSavingRef,    \* per session: the hook's single-flight ref
  debounceTimer,  \* per session: debounceTimerRef, the time its timeout is due or NoDeadline
  maxTimer,       \* per session: maxTimerRef, the time its timeout is due or NoDeadline
  synced,         \* per session: the document last loaded from / accepted by the remote
  conflict,       \* per session: useConflictResolution's `conflict` state
  isConflictModalOpen,
  resolved,       \* per session: the value last returned by a resolveWith* call
  nOps, nExt,     \* bounding counters
  clientNow,      \* browser: the clock read by setTimeout and new Date(), in units of 1000 ms
  lastConflictTs, \* per session: serverTimestamp of the 409 response last handled
  snapshots,      \* server: the objects under versions/ of the project
  saveResult,     \* per session: how the promise of the last noted save() call stands
  branchResp      \* per session: the answer of the branch endpoint its page has yet to handle

vars == <<stored, clock, att, store, isSavingRef, debounceTimer, maxTimer,
          synced, conflict, isConflictModalOpen, resolved, nOps, nExt,
          clientNow, lastConflictTs, snapshots, saveResult, branchResp>>

serverVars == <<stored, clock>>
resolverVars == <<conflict, isConflictModalOpen, resolved>>
timerVars == <<debounceTimer, maxTimer>>
counterVars == <<nOps, nExt>>
auxVars == <<clientNow, lastConflictTs, snapshots, saveResult, branchResp>>

\* A timer ref holds the time its pending timeout is due, or null.
NoDeadline == 0 - 1
Pending(ref) == ref # NoDeadline

\* use-auto-save.ts:24 and layout.tsx:77-80  debounceMs = 2000 and
\* interval: 5000, in units of 1000 ms.
debounceMs == 2
resolvedMaxInterval == 5

NoConflict ==
  [localVersion |-> NullProject, serverVersion |-> NullProject,
   serverTimestamp |-> NullTime]

\* No answer of the branch endpoint is waiting for its onSuccess callback.
NoBranchResp == [kind |-> "none", branch |-> NewBranch(0, 0, NullTime)]

InitStore ==
  [project |-> NullProject, isDirty |-> FALSE, lastSavedAt |-> NullTime,
   lastKnownTimestamp |-> NullTime, isSaving |-> FALSE]

Init ==
  /\ stored = EmptyProject
  /\ clock = 1
  /\ att = [c \in Clients |-> <<>>]
  /\ store = [s \in Sessions |-> InitStore]
  /\ isSavingRef = [s \in Sessions |-> FALSE]
  /\ debounceTimer = [s \in Sessions |-> NoDeadline]
  /\ maxTimer = [s \in Sessions |-> NoDeadline]
  /\ synced = [s \in Sessions |-> NullProject]
  /\ conflict = [s \in Sessions |-> NoConflict]
  /\ isConflictModalOpen = [s \in Sessions |-> FALSE]
  /\ resolved = [s \in Sessions |-> NullProject]
  /\ nOps = 0
  /\ nExt = 0
  /\ clientNow = 0
  /\ lastConflictTs = [s \in Sessions |-> NullTime]
  /\ snapshots = {}
  /\ saveResult = [s \in Sessions |-> "none"]
  /\ branchResp = [s \in Sessions |-> NoBranchResp]


\* ------------------------------------------------- PUT requests in flight
NoData ==
  [timestamp |-> NullTime, version |-> 0, serverVersion |-> NullProject,
   serverTimestamp |-> NullTime, serverUpdatedBy |-> ""]

\* JSON body of the PUT request.
Body(p, lkt, force) ==
  [project |-> p, lastKnownTimestamp |-> lkt, forceOverwrite |-> force]

\* A request as issued by fetch(): pc is "sent" (not yet read by the
\* handler), "write" (handler passed the check, storage.setProject pending)
\* or "resp" (the client can observe the outcome: status 200 / 409 / 500,
\* or 0 when fetch itself rejects).  `mutated` records whether the issuing
\* session's store was mutated since the request was issued.
NewAttempt(body) ==
  [body |-> body, pc |-> "sent", serverProject |-> NullProject,
   now |-> NullTime, status |-> 0, data |-> NoData, mutated |-> FALSE]

RemoveAt(q, i) == [j \in 1 .. (Len(q) - 1) |-> IF j < i THEN q[j] ELSE q[j + 1]]

\* ------------------------------------------------------------ PUT handler
\* Variant: only a timestamp older than the stored one counts as a conflict.
IsConflict_OlderOnly(body, serverProject) ==
  /\ ~body.forceOverwrite
  /\ body.lastKnownTimestamp < serverProject.updatedAt

\* route.ts:97  the conflict test.
IsConflict(body, serverProject) ==
  /\ ~body.forceOverwrite
  /\ body.lastKnownTimestamp # serverProject.updatedAt

\* route.ts:98-107  the 409 payload.
ConflictData(serverProject) ==
  [NoData EXCEPT !.serverVersion = serverProject,
                 !.serverTimestamp = serverProject.updatedAt,
                 !.serverUpdatedBy = serverProject.updatedBy]

\* route.ts:112
NewVersion(serverProject) == serverProject.version + 1

\* Variant: the version the client sent is stored.
UpdatedProject_ClientVersion(clientProject, serverProject, now) ==
  [clientProject EXCEPT !.id = "p1", !.updatedAt = now, !.updatedBy = UserId]

\* route.ts:114-121  the document handed to storage.setProject.
UpdatedProject(clientProject, serverProject, now) ==
  [clientProject EXCEPT !.id = "p1", !.updatedAt = now,
                        !.updatedBy = UserId,
                        !.version = NewVersion(serverProject)]

\* route.ts:126-130
SuccessData(serverProject, now) ==
  [NoData EXCEPT !.timestamp = now, !.version = NewVersion(serverProject)]

\* route.ts:79-112  storage.getProject resolves, the handler compares the
\* timestamps and either answers 409 or reads the clock and goes on to write.
PutRead(c, i) ==
  /\ i \in DOMAIN att[c]
  /\ att[c][i].pc = "sent"
  /\ IsConflict(att[c][i].body, stored) \/ stored.version < MaxVersion
  /\ LET a == att[c][i]
     IN  att' = [att EXCEPT ![c][i] =
           IF IsConflict(a.body, stored)
           THEN [a EXCEPT !.pc = "resp", !.status = 409,
                          !.data = ConflictData(stored)]
           ELSE [a EXCEPT !.pc = "write", !.serverProject = stored,
                          !.now = clock]]
  /\ UNCHANGED <<serverVars, store, isSavingRef, timerVars, synced,
                 resolverVars, counterVars, auxVars>>

\* route.ts:124-130  storage.setProject completes and the handler answers 200.
PutWrite(c, i) ==
  /\ i \in DOMAIN att[c]
  /\ att[c][i].pc = "write"
  /\ LET a == att[c][i]
     IN  /\ stored' = UpdatedProject(a.body.project, a.serverProject, a.now)
         /\ att' = [att EXCEPT ![c][i] =
              [a EXCEPT !.pc = "resp", !.status = 200,
                        !.serverProject = NullProject, !.now = NullTime,
                        !.data = SuccessData(a.serverProject, a.now)]]
  /\ UNCHANGED <<clock, store, isSavingRef, timerVars, synced,
                 resolverVars, counterVars, auxVars>>

\* route.ts:131-137 with storage.ts:186-210  storage.setProject throws: either
\* the upload of project.json failed (nothing stored) or the upload of the
\* index that follows it failed (project.json already replaced); 500 either way.
PutWriteFail(c, i) ==
  /\ i \in DOMAIN att[c]
  /\ att[c][i].pc = "write"
  /\ LET a == att[c][i]
     IN  /\ \E uploaded \in BOOLEAN :
              stored' = IF uploaded
                        THEN UpdatedProject(a.body.project, a.serverProject, a.now)
                        ELSE stored
         /\ att' = [att EXCEPT ![c][i] =
              [a EXCEPT !.pc = "resp", !.status = 500,
                        !.serverProject = NullProject, !.now = NullTime]]
  /\ UNCHANGED <<clock, store, isSavingRef, timerVars, synced,
                 resolverVars, counterVars, auxVars>>

\* fetch() rejects: the request never reached the handler, or its response
\* was lost on the way back.
NetFail(c, i) ==
  /\ i \in DOMAIN att[c]
  /\ att[c][i].pc \in {"sent", "resp"}
  /\ att[c][i].status # 0 \/ att[c][i].pc = "sent"
  /\ att' = [att EXCEPT ![c][i] =
       [@ EXCEPT !.pc = "resp", !.status = 0, !.data = NoData]]
  /\ UNCHANGED <<serverVars, store, isSavingRef, timerVars, synced,
                 resolverVars, counterVars, auxVars>>

\* The server's clock advances.
Tick ==
  /\ clock < MaxTime
  /\ clock' = clock + 1
  /\ UNCHANGED <<stored, att, store, isSavingRef, timerVars, synced,
                 resolverVars, counterVars, auxVars>>

\* The document an external client puts: an edited title, and a version field
\* that matches no version the server ever assigns.
ExtDoc == [EmptyProject EXCEPT !.title = "t1", !.version = 7]

\* Any other client of the endpoint (a re-save after conflict resolution, a
\* script) issues PUT with a body of its choice.
ExtPut ==
  /\ nExt < MaxExt
  /\ \E lkt \in 0 .. 1, force \in BOOLEAN :
       att' = [att EXCEPT ![Ext] = Append(@, NewAttempt(Body(ExtDoc, lkt, force)))]
  /\ nExt' = nExt + 1
  /\ UNCHANGED <<serverVars, store, isSavingRef, timerVars, synced,
                 resolverVars, nOps, auxVars>>

\* The external client consumes a response.
ExtDone ==
  /\ \E i \in DOMAIN att[Ext] :
       /\ att[Ext][i].pc = "resp"
       /\ att' = [att EXCEPT ![Ext] = RemoveAt(@, i)]
  /\ UNCHANGED <<serverVars, store, isSavingRef, timerVars, synced,
                 resolverVars, counterVars, auxVars>>


\* ---------------------------------------------------------- project store
Undefined == 0 - 3              \* markClean called without a version

\* project-store.ts:110-115
setProject(st, project) ==
  [st EXCEPT !.project = project, !.isDirty = FALSE,
             !.lastKnownTimestamp =
               IF IsNull(project) THEN NullTime ELSE project.updatedAt]

\* project-store.ts:129
markDirty(st) == [st EXCEPT !.isDirty = TRUE]

\* Variant: markClean records the timestamp but leaves the document as it is.
markClean_KeepDocument(st, timestamp, version) ==
  [st EXCEPT !.isDirty = FALSE,
             !.lastSavedAt = timestamp,
             !.lastKnownTimestamp = timestamp]

\* project-store.ts:130-140
markClean(st, timestamp, version) ==
  [st EXCEPT !.isDirty = FALSE,
             !.lastSavedAt = timestamp,
             !.lastKnownTimestamp = timestamp,
             !.project =
               IF IsNull(@) THEN @
               ELSE [@ EXCEPT !.updatedAt = timestamp,
                              !.version = IF version # Undefined THEN version ELSE @]]

\* project-store.ts:141
setSaving(st, isSaving) == [st EXCEPT !.isSaving = isSaving]

\* project-store.ts:143
setLastKnownTimestamp(st, timestamp) == [st EXCEPT !.lastKnownTimestamp = timestamp]

\* project-store.ts:117-123  (updates = {title})
updateProjectMeta(st, title) ==
  IF IsNull(st.project) THEN st
  ELSE [st EXCEPT !.project = [@ EXCEPT !.title = title], !.isDirty = TRUE]

\* project-store.ts:146-155  addCharacter: [...characters, character].
addCharacter(st, character) ==
  IF IsNull(st.project) THEN st
  ELSE [st EXCEPT !.project = [@ EXCEPT !.characters = Append(@, character)],
                  !.isDirty = TRUE]

\* project-store.ts:197-206  addScene: [...scenes, scene].
addScene(st, scene) ==
  IF IsNull(st.project) THEN st
  ELSE [st EXCEPT !.project = [@ EXCEPT !.scenes = Append(@, scene)],
                  !.isDirty = TRUE]

\* project-store.ts:400-409  addBranch: [...branches, branch].
addBranch(st, branch) ==
  IF IsNull(st.project) THEN st
  ELSE [st EXCEPT !.project = [@ EXCEPT !.branches = Append(@, branch)],
                  !.isDirty = TRUE]

\* project-store.ts:424-442  deleteBranch: the branch and its descendants are
\* filtered out (no branch of the model has a parent branch).
deleteBranch(st, id) ==
  IF IsNull(st.project) THEN st
  ELSE [st EXCEPT
          !.project = [@ EXCEPT !.branches =
             SelectSeq(@, LAMBDA b : b.id # id)],
          !.isDirty = TRUE]

\* Variant: the mutator replaces the document without isDirty: true.
updateCharacter_NotDirty(st, id, val, now) ==
  IF IsNull(st.project) THEN st
  ELSE [st EXCEPT
          !.project = [@ EXCEPT !.characters =
             [k \in DOMAIN @ |->
                IF @[k].id = id THEN [@[k] EXCEPT !.val = val, !.updatedAt = now]
                ELSE @[k]]]]

\* project-store.ts:157-168  updateCharacter: the entity with that id gets the
\* updates and updatedAt = new Date().toISOString().
updateCharacter(st, id, val, now) ==
  IF IsNull(st.project) THEN st
  ELSE [st EXCEPT
          !.project = [@ EXCEPT !.characters =
             [k \in DOMAIN @ |->
                IF @[k].id = id THEN [@[k] EXCEPT !.val = val, !.updatedAt = now]
                ELSE @[k]]],
          !.isDirty = TRUE]

\* project-store.ts:170-179  deleteCharacter: filter by id.
deleteCharacter(st, id) ==
  IF IsNull(st.project) THEN st
  ELSE [st EXCEPT
          !.project = [@ EXCEPT !.characters =
             SelectSeq(@, LAMBDA c : c.id # id)],
          !.isDirty = TRUE]

\* project-store.ts:181-195  reorderCharacters: the entities named by
\* orderedIds, in that order (order = index); ids that name no entity are
\* skipped and entities that are not named are dropped.
RECURSIVE Reordered(_, _)
Reordered(q, orderedIds) ==
  IF orderedIds = <<>> THEN <<>>
  ELSE SelectSeq(q, LAMBDA c : c.id = Head(orderedIds))
         \o Reordered(q, Tail(orderedIds))

reorderCharacters(st, orderedIds) ==
  IF IsNull(st.project) THEN st
  ELSE [st EXCEPT
          !.project = [@ EXCEPT !.characters = Reordered(@, orderedIds)],
          !.isDirty = TRUE]

\* project-store.ts:254-263  addPlotline.
addPlotline(st, plotline) ==
  IF IsNull(st.project) THEN st
  ELSE [st EXCEPT !.project = [@ EXCEPT !.plotlines = Append(@, plotline)],
                  !.isDirty = TRUE]

\* project-store.ts:265-276  updatePlotline: the updates only, no updatedAt.
updatePlotline(st, id, val) ==
  IF IsNull(st.project) THEN st
  ELSE [st EXCEPT
          !.project = [@ EXCEPT !.plotlines =
             [k \in DOMAIN @ |->
                IF @[k].id = id THEN [@[k] EXCEPT !.val = val] ELSE @[k]]],
          !.isDirty = TRUE]

\* ------------------------------------------------------------- useAutoSave
\* layout.tsx:77-80  the hook is mounted with enabled: !!project.
enabled(s) == ~IsNull(store[s].project)

\* Variant: the guard of save() without the dirty test.
CanSave_NoDirty(s) ==
  /\ ~isSavingRef[s]
  /\ ~IsNull(store[s].project)
  /\ enabled(s)

\* Variant: the guard of save() without the single-flight ref.
CanSave_NoRef(s) ==
  /\ store[s].isDirty
  /\ ~IsNull(store[s].project)
  /\ enabled(s)

\* use-auto-save.ts:40-43  the guard of save().
CanSave(s) ==
  /\ store[s].isDirty
  /\ ~isSavingRef[s]
  /\ ~IsNull(store[s].project)
  /\ enabled(s)

\* use-auto-save.ts:74-78  the request body (lastKnownTimestamp ?? project.updatedAt).
SaveBody(st) ==
  Body(st.project,
       IF st.lastKnownTimestamp # NullTime THEN st.lastKnownTimestamp
       ELSE st.project.updatedAt,
       FALSE)

\* Variant: save() leaves the pending debounce timeout alone.
SaveCall_KeepDebounce(s, dT, mT) ==
  IF CanSave(s)
  THEN /\ debounceTimer' = dT
       /\ maxTimer' = mT
       /\ isSavingRef' = [isSavingRef EXCEPT ![s] = TRUE]
       /\ store' = [store EXCEPT ![s] = setSaving(@, TRUE)]
       /\ att' = [att EXCEPT ![s] = Append(@, NewAttempt(SaveBody(store[s])))]
  ELSE /\ debounceTimer' = dT
       /\ maxTimer' = mT
       /\ UNCHANGED <<isSavingRef, store, att>>

\* Variant: save() cancels the max-staleness timeout together with the debounce.
SaveCall_CancelBoth(s, dT, mT) ==
  IF CanSave(s)
  THEN /\ debounceTimer' = [dT EXCEPT ![s] = NoDeadline]
       /\ maxTimer' = [mT EXCEPT ![s] = NoDeadline]
       /\ isSavingRef' = [isSavingRef EXCEPT ![s] = TRUE]
       /\ store' = [store EXCEPT ![s] = setSaving(@, TRUE)]
       /\ att' = [att EXCEPT ![s] = Append(@, NewAttempt(SaveBody(store[s])))]
  ELSE /\ debounceTimer' = dT
       /\ maxTimer' = mT
       /\ UNCHANGED <<isSavingRef, store, att>>

\* use-auto-save.ts:39-79  save() up to the await of fetch: when the guard
\* passes it cancels the debounce timer, takes the single-flight ref, sets
\* isSaving and issues the PUT; otherwise it returns at once.  dT and mT are
\* the timer refs as the caller left them.
SaveCall(s, dT, mT) ==
  IF CanSave(s)
  THEN /\ debounceTimer' = [dT EXCEPT ![s] = NoDeadline]
       /\ maxTimer' = mT
       /\ isSavingRef' = [isSavingRef EXCEPT ![s] = TRUE]
       /\ store' = [store EXCEPT ![s] = setSaving(@, TRUE)]
       /\ att' = [att EXCEPT ![s] = Append(@, NewAttempt(SaveBody(store[s])))]
  ELSE /\ debounceTimer' = dT
       /\ maxTimer' = mT
       /\ UNCHANGED <<isSavingRef, store, att>>

\* use-auto-save.ts:118-121  the debounce timeout fires.
DebounceFire(s) ==
  /\ Pending(debounceTimer[s])
  /\ SaveCall(s, [debounceTimer EXCEPT ![s] = NoDeadline], maxTimer)
  /\ UNCHANGED <<serverVars, synced, resolverVars, counterVars, auxVars>>

\* use-auto-save.ts:125-128  the max-staleness timeout fires.
MaxFire(s) ==
  /\ Pending(maxTimer[s])
  /\ SaveCall(s, debounceTimer, [maxTimer EXCEPT ![s] = NoDeadline])
  /\ UNCHANGED <<serverVars, synced, resolverVars, counterVars, auxVars>>

\* use-auto-save.ts:156-158  visibilitychange / blur.
OnHide(s) ==
  /\ IF store[s].isDirty /\ enabled(s)
     THEN SaveCall(s, debounceTimer, maxTimer)
     ELSE UNCHANGED <<debounceTimer, maxTimer, isSavingRef, store, att>>
  /\ UNCHANGED <<serverVars, synced, resolverVars, counterVars, auxVars>>

\* use-auto-save.ts:169-176  beforeunload.
OnBeforeUnload(s) ==
  /\ IF store[s].isDirty
     THEN SaveCall(s, debounceTimer, maxTimer)
     ELSE UNCHANGED <<debounceTimer, maxTimer, isSavingRef, store, att>>
  /\ UNCHANGED <<serverVars, synced, resolverVars, counterVars, auxVars>>

\* use-auto-save.ts:181  the save function the hook returns, called directly.
ExplicitSave(s) ==
  /\ SaveCall(s, debounceTimer, maxTimer)
  /\ UNCHANGED <<serverVars, synced, resolverVars, counterVars, auxVars>>

\* Variant: schedule() keeps a pending debounce timeout instead of restarting it.
scheduleDebounce_NoReset(s, st) ==
  IF ~IsNull(st.project) /\ st.isDirty /\ ~Pending(debounceTimer[s])
  THEN [debounceTimer EXCEPT ![s] = clientNow + debounceMs]
  ELSE debounceTimer

\* use-auto-save.ts:113-130  schedule(), run by the store subscription
\* (132-137) after every set() that replaced a non-null project: st is the
\* store state after that set().
scheduleDebounce(s, st) ==
  IF ~IsNull(st.project) /\ st.isDirty
  THEN [debounceTimer EXCEPT ![s] = clientNow + debounceMs]
  ELSE debounceTimer

\* Variant: schedule() restarts the max-staleness timeout on every mutation.
scheduleMax_Rearm(s, st) ==
  IF ~IsNull(st.project) /\ st.isDirty
  THEN [maxTimer EXCEPT ![s] = clientNow + resolvedMaxInterval]
  ELSE IF ~st.isDirty /\ store[s].isDirty
       THEN [maxTimer EXCEPT ![s] = NoDeadline]
       ELSE maxTimer

\* use-auto-save.ts:123-129 and 147-152  the max-staleness ref after a set():
\* armed by schedule() when none is pending, cleared by the isDirty effect
\* when the store turned clean.
scheduleMax(s, st) ==
  IF ~IsNull(st.project) /\ st.isDirty
  THEN IF Pending(maxTimer[s]) THEN maxTimer
       ELSE [maxTimer EXCEPT ![s] = clientNow + resolvedMaxInterval]
  ELSE IF ~st.isDirty /\ store[s].isDirty
       THEN [maxTimer EXCEPT ![s] = NoDeadline]
       ELSE maxTimer

\* Requests of session s in flight see a mutation of its store.
MarkMutated(s) == [k \in DOMAIN att[s] |-> [att[s][k] EXCEPT !.mutated = TRUE]]

\* A store mutator is applied (st is the resulting store state).
Mutate(s, st) ==
  /\ nOps < MaxOps
  /\ ~IsNull(store[s].project)
  /\ store' = [store EXCEPT ![s] = st]
  /\ debounceTimer' = scheduleDebounce(s, st)
  /\ maxTimer' = scheduleMax(s, st)
  /\ att' = [att EXCEPT ![s] = MarkMutated(s)]
  /\ nOps' = nOps + 1
  /\ UNCHANGED <<serverVars, isSavingRef, synced, resolverVars, nExt, auxVars>>

\* The writer edits the title to another value.
UpdateProjectMeta(s) ==
  \E t \in Titles \ {store[s].project.title} :
    Mutate(s, updateProjectMeta(store[s], t))

\* layout.tsx:21-61  GET /api/projects/[id] (route.ts:26-46) answers with the
\* stored project and the layout hands it to setProject.
Load(s) ==
  /\ nOps < MaxOps
  /\ LET st == setProject(store[s], stored)
     IN  /\ store' = [store EXCEPT ![s] = st]
         /\ debounceTimer' = scheduleDebounce(s, st)
         /\ maxTimer' = scheduleMax(s, st)
  /\ synced' = [synced EXCEPT ![s] = stored]
  /\ nOps' = nOps + 1
  /\ UNCHANGED <<serverVars, att, isSavingRef, resolverVars, nExt, auxVars>>

\* use-auto-save.ts:91-93 and 97-100  the PUT answered 200: markClean with the
\* server's timestamp and version, then the finally block.
SaveOk(s, i) ==
  /\ i \in DOMAIN att[s]
  /\ att[s][i].pc = "resp" /\ att[s][i].status = 200
  /\ LET a == att[s][i]
         st == markClean(store[s], a.data.timestamp, a.data.version)
     IN  /\ store' = [store EXCEPT ![s] = setSaving(st, FALSE)]
         /\ debounceTimer' = scheduleDebounce(s, st)
         /\ maxTimer' = scheduleMax(s, st)
         /\ synced' = [synced EXCEPT ![s] =
              [a.body.project EXCEPT !.updatedAt = a.data.timestamp,
                                     !.version = a.data.version]]
  /\ isSavingRef' = [isSavingRef EXCEPT ![s] = FALSE]
  /\ att' = [att EXCEPT ![s] = RemoveAt(@, i)]
  /\ UNCHANGED <<serverVars, resolverVars, counterVars, auxVars>>

\* Variant: a 409 is handled like a success and marks the store clean.
SaveConflict_MarkClean(s, i) ==
  /\ i \in DOMAIN att[s]
  /\ att[s][i].pc = "resp" /\ att[s][i].status = 409
  /\ LET st == markClean(store[s], att[s][i].data.serverTimestamp, Undefined)
     IN  /\ store' = [store EXCEPT ![s] = setSaving(st, FALSE)]
         /\ debounceTimer' = scheduleDebounce(s, st)
         /\ maxTimer' = scheduleMax(s, st)
  /\ isSavingRef' = [isSavingRef EXCEPT ![s] = FALSE]
  /\ att' = [att EXCEPT ![s] = RemoveAt(@, i)]
  /\ UNCHANGED <<serverVars, synced, resolverVars, counterVars, auxVars>>

\* use-auto-save.ts:82-85 and 97-100  the PUT answered 409: "skipping".
SaveConflict(s, i) ==
  /\ i \in DOMAIN att[s]
  /\ att[s][i].pc = "resp" /\ att[s][i].status = 409
  /\ store' = [store EXCEPT ![s] = setSaving(@, FALSE)]
  /\ isSavingRef' = [isSavingRef EXCEPT ![s] = FALSE]
  /\ att' = [att EXCEPT ![s] = RemoveAt(@, i)]
  /\ UNCHANGED <<serverVars, timerVars, synced, resolverVars, counterVars, auxVars>>

\* Variant: the error leaves save() without its finally block being run.
SaveError_NoFinally(s, i) ==
  /\ i \in DOMAIN att[s]
  /\ att[s][i].pc = "resp" /\ att[s][i].status \in {0, 500}
  /\ att' = [att EXCEPT ![s] = RemoveAt(@, i)]
  /\ UNCHANGED <<serverVars, store, isSavingRef, timerVars, synced,
                 resolverVars, counterVars, auxVars>>

\* use-auto-save.ts:86-88 and 95-100  any other status, or fetch rejected:
\* the error is thrown, caught and logged.
SaveError(s, i) ==
  /\ i \in DOMAIN att[s]
  /\ att[s][i].pc = "resp" /\ att[s][i].status \in {0, 500}
  /\ store' = [store EXCEPT ![s] = setSaving(@, FALSE)]
  /\ isSavingRef' = [isSavingRef EXCEPT ![s] = FALSE]
  /\ att' = [att EXCEPT ![s] = RemoveAt(@, i)]
  /\ UNCHANGED <<serverVars, timerVars, synced, resolverVars, counterVars, auxVars>>

\* ------------------------------------------------- useConflictResolution
\* new Date(a) > new Date(b): false as soon as one side is an invalid date.
DateGT(a, b) == a # NoDate /\ b # NoDate /\ a > b

\* Variant: the items are pushed to an array instead of set in a Map.
MapSet_AppendAlways(merged, item) == Append(merged, item)

\* Map.prototype.set: replaces the value of an existing key in place, appends a new key.
MapSet(merged, item) ==
  IF \E k \in DOMAIN merged : merged[k].id = item.id
  THEN [k \in DOMAIN merged |-> IF merged[k].id = item.id THEN item ELSE merged[k]]
  ELSE Append(merged, item)

\* Map.prototype.get
MapGet(merged, id) == merged[CHOOSE k \in DOMAIN merged : merged[k].id = id]

MapHas(merged, id) == \E k \in DOMAIN merged : merged[k].id = id

\* part_003:80  server.forEach((item) => merged.set(item.id, item))
RECURSIVE AddServerItems(_, _)
AddServerItems(merged, server) ==
  IF server = <<>> THEN merged
  ELSE AddServerItems(MapSet(merged, Head(server)), Tail(server))

\* Variant: a local item always replaces the server item.
LocalWins_Always(merged, item) == TRUE

\* part_003:85  the test that lets a local item into the map.
LocalWins(merged, item) ==
  \/ ~MapHas(merged, item.id)
  \/ DateGT(item.updatedAt, MapGet(merged, item.id).updatedAt)

\* part_003:83-88  local.forEach(...)
RECURSIVE AddLocalItems(_, _)
AddLocalItems(merged, local) ==
  IF local = <<>> THEN merged
  ELSE AddLocalItems(IF LocalWins(merged, Head(local))
                     THEN MapSet(merged, Head(local))
                     ELSE merged,
                     Tail(local))

\* part_003:73-91
mergeArrays(local, server) == AddLocalItems(AddServerItems(<<>>, server), local)

\* part_003:93-117  (targetWordCount is not a field of Project: it stays undefined)
mergedProject(localVersion, serverVersion, now) ==
  [serverVersion EXCEPT
     !.title = IF localVersion.title # serverVersion.title
               THEN localVersion.title ELSE serverVersion.title,
     !.description = localVersion.description,
     !.genre = localVersion.genre,
     !.characters = mergeArrays(localVersion.characters, serverVersion.characters),
     !.scenes = mergeArrays(localVersion.scenes, serverVersion.scenes),
     !.plotlines = mergeArrays(localVersion.plotlines, serverVersion.plotlines),
     !.locations = mergeArrays(localVersion.locations, serverVersion.locations),
     !.notes = mergeArrays(localVersion.notes, serverVersion.notes),
     !.timeline = [serverVersion.timeline EXCEPT
                     !.events = mergeArrays(localVersion.timeline.events,
                                            serverVersion.timeline.events)],
     !.version = serverVersion.version + 1,
     !.updatedAt = now]

\* part_003:46-50
localResolved(localVersion, serverVersion, now) ==
  [localVersion EXCEPT !.version = serverVersion.version + 1, !.updatedAt = now]

\* part_003:26-36
ShowConflict(s, local, server, timestamp) ==
  /\ conflict' = [conflict EXCEPT ![s] =
       [localVersion |-> local, serverVersion |-> server,
        serverTimestamp |-> timestamp]]
  /\ isConflictModalOpen' = [isConflictModalOpen EXCEPT ![s] = TRUE]
  /\ UNCHANGED <<serverVars, att, store, isSavingRef, timerVars, synced,
                 resolved, counterVars, auxVars>>

\* part_003:38-41
ClearConflict(s) ==
  /\ conflict' = [conflict EXCEPT ![s] = NoConflict]
  /\ isConflictModalOpen' = [isConflictModalOpen EXCEPT ![s] = FALSE]
  /\ UNCHANGED <<serverVars, att, store, isSavingRef, timerVars, synced,
                 resolved, counterVars, auxVars>>

\* part_003:44, 57, 64  what the caller gets instead of a document when a
\* resolveWith* call throws new Error('No conflict to resolve').
Thrown == [NullProject EXCEPT !.id = "Error: No conflict to resolve"]

\* Variant: the call does not test for a pending conflict.
Resolve_Unchecked(s, result) ==
  /\ resolved' = [resolved EXCEPT ![s] = result]
  /\ conflict' = [conflict EXCEPT ![s] = NoConflict]
  /\ isConflictModalOpen' = [isConflictModalOpen EXCEPT ![s] = FALSE]
  /\ UNCHANGED <<serverVars, att, store, isSavingRef, timerVars, synced,
                 counterVars, auxVars>>

\* A resolveWith* call returns `result` after clearConflict(); without a
\* pending conflict it throws and the resolver's state stays as it is.
Resolve(s, result) ==
  /\ IF conflict[s] = NoConflict
     THEN /\ resolved' = [resolved EXCEPT ![s] = Thrown]
          /\ UNCHANGED <<conflict, isConflictModalOpen>>
     ELSE /\ resolved' = [resolved EXCEPT ![s] = result]
          /\ conflict' = [conflict EXCEPT ![s] = NoConflict]
          /\ isConflictModalOpen' = [isConflictModalOpen EXCEPT ![s] = FALSE]
  /\ UNCHANGED <<serverVars, att, store, isSavingRef, timerVars, synced,
                 counterVars, auxVars>>

\* part_003:43-54
ResolveWithLocal(s) ==
  Resolve(s, localResolved(conflict[s].localVersion, conflict[s].serverVersion, clock))

\* part_003:56-61
ResolveWithServer(s) == Resolve(s, conflict[s].serverVersion)

\* part_003:63-121
ResolveWithMerge(s) ==
  Resolve(s, mergedProject(conflict[s].localVersion, conflict[s].serverVersion, clock))

\* ---- documents offered to the resolver
Absent == 0 - 9

\* The entities an assignment f : Ids -> Stamps \cup {Absent} describes, by
\* ascending id from id i on, each carrying payload v.
RECURSIVE EntitySeq(_, _, _)
EntitySeq(f, i, v) ==
  IF i > MaxId THEN <<>>
  ELSE IF f[i] = Absent THEN EntitySeq(f, i + 1, v)
       ELSE <<Entity(i, f[i], v)>> \o EntitySeq(f, i + 1, v)

\* A collection whose entities carry updatedAt (characters, scenes, notes), or
\* one whose entity type has no updatedAt at all (plotlines, locations, events).
EntitySeqs(v) ==
  {EntitySeq(f, 1, v) : f \in [Ids -> Stamps \cup {Absent}]}
    \cup {EntitySeq(f, 1, v) : f \in [Ids -> {NoDate, Absent}]}

WithCollection(p, c, q) ==
  IF c = "events" THEN [p EXCEPT !.timeline = [@ EXCEPT !.events = q]]
  ELSE [p EXCEPT ![c] = q]

GetCollection(p, c) == IF c = "events" THEN p.timeline.events ELSE p[c]

AllCollections == Collections \cup {"events"}

\* The host, with no conflict pending and no resolved document left to
\* handle, reports a conflict between a local and a server document that
\* differ in one collection.
HostShowConflict(s) ==
  /\ conflict[s] = NoConflict
  /\ IsNull(resolved[s])
  /\ \E c \in AllCollections, l \in EntitySeqs("local"), r \in EntitySeqs("server") :
    ShowConflict(s, WithCollection(EmptyProject, c, l),
                 WithCollection([EmptyProject EXCEPT !.updatedAt = 1, !.version = 2], c, r),
                 1)

\* Values of the document-level scalar fields other than the title.
Descriptions == {"d0", "d1"}
Genres == {"g0", "g1"}
SettingsValues == {"s0", "s1"}

WithScalars(p, t, d, g, st) ==
  [p EXCEPT !.title = t, !.description = d, !.genre = g, !.settings = st]

\* The host reports a conflict between a local and a server document that
\* differ (or agree) in their document-level scalar fields.
HostShowScalarConflict(s) ==
  /\ conflict[s] = NoConflict
  /\ IsNull(resolved[s])
  /\ \E lt \in Titles, ld \in Descriptions, lg \in Genres, ls \in SettingsValues,
        rt \in Titles, rd \in Descriptions, rg \in Genres, rs \in SettingsValues :
       ShowConflict(s, WithScalars(EmptyProject, lt, ld, lg, ls),
                    WithScalars([EmptyProject EXCEPT !.updatedAt = 1, !.version = 2],
                                rt, rd, rg, rs),
                    1)

\* Two editing sessions and the server.
Next ==
  \/ \E s \in Sessions : \E i \in 1 .. 2 :
       PutRead(s, i) \/ PutWrite(s, i) \/ PutWriteFail(s, i) \/ NetFail(s, i)
  \/ Tick
  \/ \E s \in Sessions :
       \/ Load(s)
       \/ UpdateProjectMeta(s)
       \/ DebounceFire(s) \/ MaxFire(s) \/ OnHide(s) \/ OnBeforeUnload(s)
       \/ ExplicitSave(s)
       \/ \E i \in 1 .. 2 : SaveOk(s, i) \/ SaveConflict(s, i) \/ SaveError(s, i)

Spec == Init /\ [][Next]_vars


\* The host takes the document a resolveWith* call returned.
HostTakeResolved(s) ==
  /\ ~IsNull(resolved[s])
  /\ resolved' = [resolved EXCEPT ![s] = NullProject]
  /\ UNCHANGED <<serverVars, att, store, isSavingRef, timerVars, synced,
                 conflict, isConflictModalOpen, counterVars, auxVars>>

\* The PUT endpoint driven by arbitrary clients.
NextPut ==
  \/ \E i \in 1 .. MaxExt :
       PutRead(Ext, i) \/ PutWrite(Ext, i) \/ PutWriteFail(Ext, i) \/ NetFail(Ext, i)
  \/ Tick
  \/ ExtPut
  \/ ExtDone

PutSpec == Init /\ [][NextPut]_vars

\* The conflict resolver of one session driven by its host.
ResolverSession == "A"

NextResolver ==
  \/ HostShowConflict(ResolverSession)
  \/ HostShowScalarConflict(ResolverSession)
  \/ ClearConflict(ResolverSession)
  \/ ResolveWithLocal(ResolverSession)
  \/ ResolveWithServer(ResolverSession)
  \/ ResolveWithMerge(ResolverSession)
  \/ HostTakeResolved(ResolverSession)

ResolverSpec == Init /\ [][NextResolver]_vars

\* ---------------------------------- the scheduler against the browser clock
TimerSession == "A"

\* The browser clock advances by one unit; a timeout that is due fires
\* before time moves on.
Advance ==
  /\ clientNow < MaxNow
  /\ \A s \in Sessions :
       /\ Pending(debounceTimer[s]) => debounceTimer[s] > clientNow
       /\ Pending(maxTimer[s]) => maxTimer[s] > clientNow
  /\ clientNow' = clientNow + 1
  /\ UNCHANGED <<serverVars, att, store, isSavingRef, timerVars, synced,
                 resolverVars, counterVars, lastConflictTs, snapshots, saveResult,
                 branchResp>>

\* setTimeout runs the debounce callback once its delay has elapsed.
DebounceDue(s) == debounceTimer[s] <= clientNow /\ DebounceFire(s)

\* setTimeout runs the max-staleness callback once its delay has elapsed.
MaxDue(s) == maxTimer[s] <= clientNow /\ MaxFire(s)

\* layout.tsx:21-61  the layout's load when the page is opened.
Mount(s) == IsNull(store[s].project) /\ Load(s)

\* One editing session whose saves the server accepts, with the browser
\* clock stepping and timeouts firing when due.
NextTimer ==
  \/ Advance
  \/ Mount(TimerSession)
  \/ UpdateProjectMeta(TimerSession)
  \/ DebounceDue(TimerSession)
  \/ MaxDue(TimerSession)
  \/ OnHide(TimerSession)
  \/ OnBeforeUnload(TimerSession)
  \/ ExplicitSave(TimerSession)
  \/ \E i \in 1 .. 2 :
       PutRead(TimerSession, i) \/ PutWrite(TimerSession, i) \/ SaveOk(TimerSession, i)

TimerSpec == Init /\ [][NextTimer]_vars

\* ------------------------------------------------------- re-subscription
\* A ref that still holds the id of a timeout that was cleared: it is not
\* null, and its callback never runs (a deadline no clock value reaches).
NeverDue == MaxNow + resolvedMaxInterval + 1

\* use-auto-save.ts:139-143  the cleanup of the debounce-on-mutation effect:
\* clearTimeout on each ref that is set; the refs keep their values.
Cleanup(ref) == IF Pending(ref) THEN NeverDue ELSE ref

\* use-auto-save.ts:110-144  an option in the dependency list (enabled,
\* debounceMs, resolvedMaxInterval) changed while the hook stays enabled:
\* React runs the effect's cleanup and then the effect again, which
\* subscribes anew.
Resubscribe(s) ==
  /\ enabled(s)
  /\ debounceTimer' = [debounceTimer EXCEPT ![s] = Cleanup(@)]
  /\ maxTimer' = [maxTimer EXCEPT ![s] = Cleanup(@)]
  /\ UNCHANGED <<serverVars, att, store, isSavingRef, synced, resolverVars,
                 counterVars, auxVars>>

\* One editing session with timed timeouts whose hook is re-subscribed.
NextResubscribe ==
  \/ Advance
  \/ Mount(TimerSession)
  \/ UpdateProjectMeta(TimerSession)
  \/ DebounceDue(TimerSession)
  \/ MaxDue(TimerSession)
  \/ Resubscribe(TimerSession)
  \/ \E i \in 1 .. 2 :
       \/ PutRead(TimerSession, i) \/ PutWrite(TimerSession, i)
       \/ SaveOk(TimerSession, i)

ResubscribeSpec == Init /\ [][NextResubscribe]_vars

\* ------------------------------------------- saving again after a conflict
\* use-auto-save.ts:82-85 and 97-100  the PUT answered 409, as SaveConflict;
\* the serverTimestamp the handler put in the response (route.ts:98-107) is
\* kept for reference.
SaveConflictNoted(s, i) ==
  /\ i \in DOMAIN att[s]
  /\ att[s][i].pc = "resp" /\ att[s][i].status = 409
  /\ store' = [store EXCEPT ![s] = setSaving(@, FALSE)]
  /\ isSavingRef' = [isSavingRef EXCEPT ![s] = FALSE]
  /\ att' = [att EXCEPT ![s] = RemoveAt(@, i)]
  /\ lastConflictTs' = [lastConflictTs EXCEPT ![s] = att[s][i].data.serverTimestamp]
  /\ UNCHANGED <<serverVars, timerVars, synced, resolverVars, counterVars,
                 clientNow, snapshots, saveResult, branchResp>>

\* Two sessions that open the project once, edit and save against a server
\* that answers every request.
NextRetry ==
  \/ Tick
  \/ \E s \in Sessions :
       \/ Mount(s)
       \/ UpdateProjectMeta(s)
       \/ DebounceFire(s)
       \/ ExplicitSave(s)
       \/ \E i \in 1 .. 2 :
            \/ PutRead(s, i) \/ PutWrite(s, i)
            \/ SaveOk(s, i) \/ SaveConflictNoted(s, i)

RetrySpec == Init /\ [][NextRetry]_vars

RetrySession == "A"

\* One such session next to another client of the PUT endpoint.
NextRetryExt ==
  \/ Tick
  \/ ExtPut
  \/ \E i \in 1 .. MaxExt : PutRead(Ext, i) \/ PutWrite(Ext, i)
  \/ ExtDone
  \/ Mount(RetrySession)
  \/ UpdateProjectMeta(RetrySession)
  \/ ExplicitSave(RetrySession)
  \/ \E i \in 1 .. 2 :
       \/ PutRead(RetrySession, i) \/ PutWrite(RetrySession, i)
       \/ SaveOk(RetrySession, i) \/ SaveConflictNoted(RetrySession, i)

RetryExtSpec == Init /\ [][NextRetryExt]_vars

\* ------------------------------------------------- the hook given onSave
OnSaveSession == "A"

\* use-auto-save.ts:55-57 and 97-100  the hook was given onSave: the callback
\* put the document, the server answered 200 and the callback's promise
\* resolved; the hook marks the store clean with new Date().toISOString()
\* and no version, then runs the finally block.
OnSaveOk(s, i) ==
  /\ i \in DOMAIN att[s]
  /\ att[s][i].pc = "resp" /\ att[s][i].status = 200
  /\ LET a == att[s][i]
         st == markClean(store[s], clientNow, Undefined)
     IN  /\ store' = [store EXCEPT ![s] = setSaving(st, FALSE)]
         /\ debounceTimer' = scheduleDebounce(s, st)
         /\ maxTimer' = scheduleMax(s, st)
         /\ synced' = [synced EXCEPT ![s] =
              [a.body.project EXCEPT !.updatedAt = a.data.timestamp,
                                     !.version = a.data.version]]
  /\ isSavingRef' = [isSavingRef EXCEPT ![s] = FALSE]
  /\ att' = [att EXCEPT ![s] = RemoveAt(@, i)]
  /\ UNCHANGED <<serverVars, resolverVars, counterVars, auxVars>>

\* One editing session whose hook was given an onSave callback that puts the
\* document; the browser's clock and the server's clock run independently.
NextOnSave ==
  \/ Advance
  \/ Tick
  \/ Mount(OnSaveSession)
  \/ UpdateProjectMeta(OnSaveSession)
  \/ DebounceDue(OnSaveSession)
  \/ MaxDue(OnSaveSession)
  \/ OnHide(OnSaveSession)
  \/ \E i \in 1 .. 2 :
       \/ PutRead(OnSaveSession, i) \/ PutWrite(OnSaveSession, i)
       \/ OnSaveOk(OnSaveSession, i)

OnSaveSpec == Init /\ [][NextOnSave]_vars

\* ------------------------------------------------ every outcome of save()
\* use-auto-save.ts:55-56 and 95-100  the onSave callback rejects (its PUT
\* was answered 409 or 500, or never answered): save() catches the error and
\* runs the finally block.
OnSaveFail(s, i) ==
  /\ i \in DOMAIN att[s]
  /\ att[s][i].pc = "resp" /\ att[s][i].status # 200
  /\ store' = [store EXCEPT ![s] = setSaving(@, FALSE)]
  /\ isSavingRef' = [isSavingRef EXCEPT ![s] = FALSE]
  /\ att' = [att EXCEPT ![s] = RemoveAt(@, i)]
  /\ UNCHANGED <<serverVars, timerVars, synced, resolverVars, counterVars, auxVars>>

FetchSession == "B"

\* The request of session s moves on: the handler reads, writes or fails,
\* the network drops the request or its answer, or save() resumes after its
\* await (with onSave in OnSaveSession, with fetch in FetchSession).
Settle(s) ==
  \E i \in 1 .. 2 :
    \/ PutRead(s, i) \/ PutWrite(s, i) \/ PutWriteFail(s, i) \/ NetFail(s, i)
    \/ (s = FetchSession /\ (SaveOk(s, i) \/ SaveConflict(s, i) \/ SaveError(s, i)))
    \/ (s = OnSaveSession /\ (OnSaveOk(s, i) \/ OnSaveFail(s, i)))

\* Two sessions, one saving with fetch and one through an onSave callback,
\* against a server and a network that may fail.
NextSaving ==
  \/ \E s \in Sessions :
       \/ Mount(s)
       \/ UpdateProjectMeta(s)
       \/ DebounceFire(s)
       \/ ExplicitSave(s)
       \/ \E i \in 1 .. 2 :
            PutRead(s, i) \/ PutWrite(s, i) \/ PutWriteFail(s, i) \/ NetFail(s, i)
  \/ \E i \in 1 .. 2 :
       \/ SaveOk(FetchSession, i)
       \/ SaveConflict(FetchSession, i)
       \/ SaveError(FetchSession, i)
       \/ OnSaveOk(OnSaveSession, i)
       \/ OnSaveFail(OnSaveSession, i)

\* The event loop resumes every awaiting save(), the server handles every
\* request it received and fetch settles.
SavingSpec ==
  Init /\ [][NextSaving]_vars /\ \A s \in Sessions : WF_vars(Settle(s))

\* ------------------------------------------------------ the store mutators
MutatorSession == "A"
Vals == {"v0", "v1"}

\* A store action is called (st is the state its set() produces); the
\* subscription runs schedule() when the project was replaced.
Apply(s, st) ==
  /\ nOps < MaxOps
  /\ store' = [store EXCEPT ![s] = st]
  /\ debounceTimer' = scheduleDebounce(s, st)
  /\ maxTimer' = scheduleMax(s, st)
  /\ att' = [att EXCEPT ![s] = MarkMutated(s)]
  /\ nOps' = nOps + 1
  /\ UNCHANGED <<serverVars, isSavingRef, synced, resolverVars, nExt, auxVars>>

IdsIn(q) == {q[k].id : k \in DOMAIN q}

SetTitle(s) ==
  \E t \in Titles : Apply(s, updateProjectMeta(store[s], t))

\* The id the caller generates for a new entity: one not in use.
NewId(q) == CHOOSE i \in Ids : i \notin IdsIn(q) /\ \A j \in Ids \ IdsIn(q) : i <= j

AddCharacter(s) ==
  /\ IdsIn(store[s].project.characters) # Ids
  /\ Apply(s, addCharacter(store[s],
        Entity(NewId(store[s].project.characters), clientNow, "v0")))

UpdateCharacter(s) ==
  \E i \in Ids, v \in Vals : Apply(s, updateCharacter(store[s], i, v, clientNow))

DeleteCharacter(s) ==
  \E i \in Ids : Apply(s, deleteCharacter(store[s], i))

\* The list is dragged into reverse order, or the caller names one id only.
ReorderCharacters(s) ==
  \/ \E i \in Ids : Apply(s, reorderCharacters(store[s], <<i>>))
  \/ LET q == store[s].project.characters
     IN  Apply(s, reorderCharacters(store[s],
                    [k \in DOMAIN q |-> q[Len(q) + 1 - k].id]))

AddPlotline(s) ==
  /\ IdsIn(store[s].project.plotlines) # Ids
  /\ Apply(s, addPlotline(store[s],
        Entity(NewId(store[s].project.plotlines), clientNow, "v0")))

UpdatePlotline(s) ==
  \E i \in Ids, v \in Vals : Apply(s, updatePlotline(store[s], i, v))

Mutator(s) ==
  \/ SetTitle(s)
  \/ AddCharacter(s) \/ UpdateCharacter(s) \/ DeleteCharacter(s)
  \/ ReorderCharacters(s)
  \/ AddPlotline(s) \/ UpdatePlotline(s)

\* One session whose store actions are called before and after the project
\* is loaded and while a save runs.
NextMutator ==
  \/ Mount(MutatorSession)
  \/ SetTitle(MutatorSession)
  \/ AddCharacter(MutatorSession)
  \/ UpdateCharacter(MutatorSession)
  \/ DeleteCharacter(MutatorSession)
  \/ ReorderCharacters(MutatorSession)
  \/ AddPlotline(MutatorSession)
  \/ UpdatePlotline(MutatorSession)
  \/ ExplicitSave(MutatorSession)
  \/ \E i \in 1 .. 2 :
       \/ PutRead(MutatorSession, i) \/ PutWrite(MutatorSession, i)
       \/ SaveOk(MutatorSession, i)

MutatorSpec == Init /\ [][NextMutator]_vars

\* ------------------------------------------------ what a save() call returns
\* use-auto-save.ts:39-101  save() called by the host, with the promise it
\* returns noted: the call that fails the guard returns at once (line 42), so
\* its promise is fulfilled; otherwise the promise is pending until the
\* finally block has run.  Nothing in save() rejects it: every throw is
\* caught at line 95.
ExplicitSaveNoted(s) ==
  /\ nOps < MaxOps
  /\ SaveCall(s, debounceTimer, maxTimer)
  /\ saveResult' = [saveResult EXCEPT ![s] =
       IF CanSave(s) THEN "pending" ELSE "fulfilled"]
  /\ nOps' = nOps + 1
  /\ UNCHANGED <<serverVars, synced, resolverVars, nExt,
                 clientNow, lastConflictTs, snapshots, branchResp>>

\* use-auto-save.ts:91-100  the PUT answered 200, as SaveOk; the promise of
\* the call is fulfilled.
SaveOkNoted(s, i) ==
  /\ i \in DOMAIN att[s]
  /\ att[s][i].pc = "resp" /\ att[s][i].status = 200
  /\ LET a == att[s][i]
         st == markClean(store[s], a.data.timestamp, a.data.version)
     IN  /\ store' = [store EXCEPT ![s] = setSaving(st, FALSE)]
         /\ debounceTimer' = scheduleDebounce(s, st)
         /\ maxTimer' = scheduleMax(s, st)
         /\ synced' = [synced EXCEPT ![s] =
              [a.body.project EXCEPT !.updatedAt = a.data.timestamp,
                                     !.version = a.data.version]]
  /\ isSavingRef' = [isSavingRef EXCEPT ![s] = FALSE]
  /\ att' = [att EXCEPT ![s] = RemoveAt(@, i)]
  /\ saveResult' = [saveResult EXCEPT ![s] = "fulfilled"]
  /\ UNCHANGED <<serverVars, resolverVars, counterVars,
                 clientNow, lastConflictTs, snapshots, branchResp>>

\* Sessions whose host calls save() before and after the project is loaded.
NextUnloaded ==
  \/ Tick
  \/ \E s \in Sessions :
       \/ Mount(s)
       \/ UpdateProjectMeta(s)
       \/ ExplicitSaveNoted(s)
       \/ \E i \in 1 .. 2 :
            PutRead(s, i) \/ PutWrite(s, i) \/ SaveOkNoted(s, i)

UnloadedSpec == Init /\ [][NextUnloaded]_vars

\* ------------------------------------------------------- version history
\* r2.ts:283  cleanupOldVersions keeps versions.slice(0, 10).
KeepVersions == 10

\* r2.ts:236-242  the VersionSnapshot object; its key (r2.ts:38-39, 233-234)
\* is made of the same version and time.
VersionSnapshot(project, now) ==
  [version |-> project.version, timestamp |-> now,
   savedBy |-> project.updatedBy, snapshot |-> project]

\* r2.ts:244  uploadJSON(key, snapshot): an object under the same key is replaced.
uploadSnapshot(S, x) ==
  {y \in S : ~(y.version = x.version /\ y.timestamp = x.timestamp)} \cup {x}

\* r2.ts:254-272  the object that getVersions lists first: listObjects
\* answers in key order (v<version>-<time>), and the stable sort by
\* b.version - a.version keeps that order among equal versions.
FirstVersion(S) ==
  CHOOSE x \in S :
    \A y \in S : \/ x.version > y.version
                 \/ x.version = y.version /\ x.timestamp <= y.timestamp

\* r2.ts:250-273
RECURSIVE getVersions(_)
getVersions(S) ==
  IF S = {} THEN <<>>
  ELSE <<FirstVersion(S)>> \o getVersions(S \ {FirstVersion(S)})

\* r2.ts:279-288  delete everything after the first ten of getVersions.
cleanupOldVersions(S) ==
  LET versions == getVersions(S)
  IN  {versions[k] : k \in {j \in DOMAIN versions : j <= KeepVersions}}

\* r2.ts:228-248
createVersionSnapshot(S, project, now) ==
  cleanupOldVersions(uploadSnapshot(S, VersionSnapshot(project, now)))

\* versions/route.ts:54-92  POST: a manual snapshot of the stored project.
ManualSnapshot ==
  /\ snapshots' = createVersionSnapshot(snapshots, stored, clock)
  /\ UNCHANGED <<serverVars, att, store, isSavingRef, timerVars, synced,
                 resolverVars, counterVars, clientNow, lastConflictTs, saveResult,
                 branchResp>>

\* part_012:76-167  POST restore: the first listed snapshot of that version
\* is read, the stored project is backed up, and the snapshot's document is
\* stored with a new updatedAt and version.  The request has no body: lkt,
\* the updatedAt the caller last loaded, is not sent.
RestoreVersion(lkt, versionId) ==
  /\ stored.version < MaxVersion
  /\ \E x \in snapshots : x.version = versionId
  /\ LET versions == getVersions(snapshots)
         k == CHOOSE j \in DOMAIN versions :
                /\ versions[j].version = versionId
                /\ \A i \in 1 .. (j - 1) : versions[i].version # versionId
         snapshot == versions[k]
     IN  /\ snapshots' = createVersionSnapshot(snapshots, stored, clock)
         /\ stored' = [snapshot.snapshot EXCEPT !.updatedAt = clock,
                                                !.updatedBy = UserId,
                                                !.version = stored.version + 1]
  /\ UNCHANGED <<clock, att, store, isSavingRef, timerVars, synced,
                 resolverVars, counterVars, clientNow, lastConflictTs, saveResult,
                 branchResp>>

\* The server's clock advances while snapshots are taken; only the order of
\* the timestamps matters, so a time at which nothing was written is skipped.
SnapTick ==
  /\ clock < MaxSnapTime
  /\ stored.updatedAt = clock \/ \E x \in snapshots : x.timestamp = clock
  /\ clock' = clock + 1
  /\ UNCHANGED <<stored, att, store, isSavingRef, timerVars, synced,
                 resolverVars, counterVars, auxVars>>

\* The PUT, snapshot and restore endpoints of one project driven by any client.
NextSnapshot ==
  \/ Tick
  \/ ExtPut
  \/ \E i \in 1 .. MaxExt : PutRead(Ext, i) \/ PutWrite(Ext, i)
  \/ ExtDone
  \/ ManualSnapshot
  \/ \E lkt \in Times, versionId \in 1 .. MaxVersion : RestoreVersion(lkt, versionId)

SnapshotSpec == Init /\ [][NextSnapshot]_vars

\* The snapshot and restore endpoints of one project over a longer time.
NextRetention ==
  \/ SnapTick
  \/ ManualSnapshot
  \/ \E lkt \in Times, versionId \in 1 .. MaxVersion : RestoreVersion(lkt, versionId)

RetentionSpec == Init /\ [][NextRetention]_vars

\* ------------------------------- metadata, archive and branch endpoints
\* Each handler below reads the stored project, builds the updated document
\* and hands it to storage.setProject; the read and the write are taken as
\* one step (no other request in between).

\* route.ts:184-200  PATCH: the document with the metadata replaced.
PatchedProject(project, title, now) ==
  [project EXCEPT !.title = title, !.updatedAt = now, !.updatedBy = UserId,
                  !.version = project.version + 1]

\* route.ts:258-264  DELETE without permanent=true: the archived document.
ArchivedProject(project, now) ==
  [project EXCEPT !.archived = TRUE, !.updatedAt = now, !.updatedBy = UserId]

\* route.ts:384-389
BranchAdded(project, branch, now) ==
  [project EXCEPT !.branches = Append(@, branch),
                  !.updatedAt = now, !.updatedBy = UserId]

\* route.ts:425-430
BranchRemoved(project, branchId, now) ==
  [project EXCEPT !.branches = SelectSeq(@, LAMBDA b : b.id # branchId),
                  !.updatedAt = now, !.updatedBy = UserId]

\* route.ts:466-476
BranchUpdated(project, branchId, val, now) ==
  [project EXCEPT
     !.branches = [k \in DOMAIN @ |->
                     IF @[k].id = branchId
                     THEN [@[k] EXCEPT !.val = val, !.updatedAt = now]
                     ELSE @[k]],
     !.updatedAt = now, !.updatedBy = UserId]

\* route.ts:141-210  PATCH /api/projects/[projectId] by any client.
PatchMeta ==
  /\ stored.version < MaxVersion
  /\ \E t \in Titles : stored' = PatchedProject(stored, t, clock)
  /\ UNCHANGED <<clock, att, store, isSavingRef, timerVars, synced,
                 resolverVars, counterVars, auxVars>>

\* route.ts:218-276  DELETE /api/projects/[projectId] (soft delete).
Archive ==
  /\ stored' = ArchivedProject(stored, clock)
  /\ UNCHANGED <<clock, att, store, isSavingRef, timerVars, synced,
                 resolverVars, counterVars, auxVars>>

\* route.ts:446-489  PATCH branch by any client.
BranchPatch ==
  /\ \E branchId \in IdsIn(stored.branches), v \in Vals :
       stored' = BranchUpdated(stored, branchId, v, clock)
  /\ UNCHANGED <<clock, att, store, isSavingRef, timerVars, synced,
                 resolverVars, counterVars, auxVars>>

\* branches/page.tsx:42-55 with route.ts:324-397  the create-branch modal of
\* a scene of the session's document posts to the branch endpoint; the
\* handler answers 400 and stores nothing unless the scene is in the stored
\* project, and otherwise stores the project with the new branch and answers
\* with the branch.
BranchPost(s) ==
  /\ branchResp[s] = NoBranchResp
  /\ Len(stored.branches) < MaxBranches
  /\ \E sceneId \in IdsIn(store[s].project.scenes) \cap IdsIn(stored.scenes) :
       LET branch == NewBranch(NewId(stored.branches), sceneId, clock)
       IN  /\ stored' = BranchAdded(stored, branch, clock)
           /\ branchResp' = [branchResp EXCEPT ![s] =
                [kind |-> "created", branch |-> branch]]
  /\ UNCHANGED <<clock, att, store, isSavingRef, timerVars, synced,
                 resolverVars, counterVars, clientNow, lastConflictTs,
                 snapshots, saveResult>>

\* branches/page.tsx:146-154 with route.ts:406-438  the branch panel asks the
\* endpoint to delete a branch of the session's document.
BranchDelete(s) ==
  /\ branchResp[s] = NoBranchResp
  /\ \E k \in DOMAIN store[s].project.branches :
       LET branch == store[s].project.branches[k]
       IN  /\ stored' = BranchRemoved(stored, branch.id, clock)
           /\ branchResp' = [branchResp EXCEPT ![s] =
                [kind |-> "deleted", branch |-> branch]]
  /\ UNCHANGED <<clock, att, store, isSavingRef, timerVars, synced,
                 resolverVars, counterVars, clientNow, lastConflictTs,
                 snapshots, saveResult>>

\* branches/page.tsx:57-61 and 156-159  onSuccess: addBranch(branch) with the
\* branch of the answer, or deleteBranch(branch.id); the subscription then
\* runs schedule().
BranchSuccess(s) ==
  /\ branchResp[s] # NoBranchResp
  /\ nOps < MaxOps
  /\ LET r == branchResp[s]
         st == IF r.kind = "created"
               THEN addBranch(store[s], r.branch)
               ELSE deleteBranch(store[s], r.branch.id)
     IN  /\ store' = [store EXCEPT ![s] = st]
         /\ debounceTimer' = scheduleDebounce(s, st)
         /\ maxTimer' = scheduleMax(s, st)
  /\ att' = [att EXCEPT ![s] = MarkMutated(s)]
  /\ nOps' = nOps + 1
  /\ branchResp' = [branchResp EXCEPT ![s] = NoBranchResp]
  /\ UNCHANGED <<serverVars, isSavingRef, synced, resolverVars, nExt,
                 clientNow, lastConflictTs, snapshots, saveResult>>

BranchSession == "A"

\* scenes/page.tsx:44-62  a scene is created in the session's document.
AddScene(s) ==
  /\ IdsIn(store[s].project.scenes) = {}
  /\ Apply(s, addScene(store[s], Entity(NewId(store[s].project.scenes), clientNow, "v0")))

\* One session, the only writer of the project: it loads the project once,
\* edits, saves, and creates and deletes branches through the endpoint.
NextBranch ==
  \/ Tick
  \/ Mount(BranchSession)
  \/ AddScene(BranchSession)
  \/ UpdateProjectMeta(BranchSession)
  \/ ExplicitSave(BranchSession)
  \/ \E i \in 1 .. 2 :
       \/ PutRead(BranchSession, i) \/ PutWrite(BranchSession, i)
       \/ SaveOk(BranchSession, i) \/ SaveConflict(BranchSession, i)
  \/ BranchPost(BranchSession)
  \/ BranchDelete(BranchSession)
  \/ BranchSuccess(BranchSession)

BranchSpec == Init /\ [][NextBranch]_vars

\* Every endpoint that rewrites the stored project, driven by one session
\* and by any other client.
NextServerOps ==
  \/ Tick
  \/ Mount(BranchSession)
  \/ AddScene(BranchSession)
  \/ UpdateProjectMeta(BranchSession)
  \/ ExplicitSave(BranchSession)
  \/ \E i \in 1 .. 2 :
       \/ PutRead(BranchSession, i) \/ PutWrite(BranchSession, i)
       \/ SaveOk(BranchSession, i) \/ SaveConflict(BranchSession, i)
  \/ BranchPost(BranchSession)
  \/ BranchDelete(BranchSession)
  \/ BranchSuccess(BranchSession)
  \/ PatchMeta
  \/ Archive
  \/ BranchPatch

ServerOpsSpec == Init /\ [][NextServerOps]_vars


\* ------------------------------------------------------------ properties
InFlight(c) == DOMAIN att[c]

\* The handler takes its decision on request i of client c in this step.
Answered(c, i) ==
  /\ i \in DOMAIN att[c] /\ att[c][i].pc = "sent"
  /\ Len(att'[c]) = Len(att[c])
  /\ att'[c][i].pc = "write" \/ att'[c][i].status # 0

Accepted(a) == a.pc = "write" \/ a.status = 200

\* C1: a PUT with forceOverwrite false whose lastKnownTimestamp differs from
\* the stored updatedAt is answered 409 with the stored document, its
\* timestamp and its last writer, never reaches the write, and leaves the
\* stored document as it was.
C1_ConflictRejected ==
  [][\A c \in Clients : \A i \in 1 .. MaxExt :
       ( /\ Answered(c, i)
         /\ ~att[c][i].body.forceOverwrite
         /\ att[c][i].body.lastKnownTimestamp # stored.updatedAt )
       => /\ att'[c][i].pc = "resp"
          /\ att'[c][i].status = 409
          /\ att'[c][i].data.serverVersion = stored
          /\ att'[c][i].data.serverTimestamp = stored.updatedAt
          /\ att'[c][i].data.serverUpdatedBy = stored.updatedBy
          /\ stored' = stored]_vars

\* C1 witness: a stale unforced PUT has been answered 409 after another
\* write had replaced the stored document.
C1_Witness ==
  \E i \in InFlight(Ext) :
    /\ att[Ext][i].status = 409
    /\ ~att[Ext][i].body.forceOverwrite
    /\ att[Ext][i].data.serverVersion = stored
    /\ stored.version > 1

\* C2: of two sessions that send a PUT with the same lastKnownTimestamp, at
\* most one passes the handler's check; the stored document is never written
\* by two accepted saves based on the same prior version.
C2_ExactlyOneAccepted ==
  \A s \in Sessions, t \in Sessions :
    \A i \in InFlight(s), j \in InFlight(t) :
      ( /\ s # t
        /\ att[s][i].body.lastKnownTimestamp = att[t][j].body.lastKnownTimestamp )
      => ~(Accepted(att[s][i]) /\ Accepted(att[t][j]))

\* C3: a mutation applied while a save is in flight starts no second request,
\* and when that save is accepted the store is still dirty and a debounce
\* timer is pending, so the mutation is sent by a later attempt.
C3_MutationDuringSaveKept ==
  [][\A s \in Sessions : \A i \in 1 .. 2 :
       (SaveOk(s, i) /\ att[s][i].mutated)
       => /\ Len(att[s]) = 1
          /\ store'[s].isDirty
          /\ Pending(debounceTimer'[s])]_vars

\* C4: the handler accepts iff forceOverwrite or lastKnownTimestamp equals the
\* stored updatedAt (anything else is answered 409); an accepted save stores
\* the client's document stamped with the server's clock and the version of
\* the stored document the handler read plus one, and answers with those two values.
C4_AcceptanceRule ==
  [][\A c \in Clients : \A i \in 1 .. MaxExt :
       /\ Answered(c, i)
          => /\ (att'[c][i].pc = "write")
                  <=> ( \/ att[c][i].body.forceOverwrite
                        \/ att[c][i].body.lastKnownTimestamp = stored.updatedAt )
             /\ att'[c][i].pc # "write" => att'[c][i].status = 409
             /\ att'[c][i].pc = "write"
                  => /\ att'[c][i].now = clock
                     /\ att'[c][i].serverProject = stored
       /\ PutWrite(c, i)
          => /\ stored' = [att[c][i].body.project EXCEPT
                             !.updatedAt = att[c][i].now,
                             !.updatedBy = UserId,
                             !.version = att[c][i].serverProject.version + 1]
             /\ att'[c][i].status = 200
             /\ att'[c][i].data.timestamp = stored'.updatedAt
             /\ att'[c][i].data.version = stored'.version]_vars

\* C4 witness: a forced PUT with a stale timestamp and a client version of 7
\* has been accepted and the stored document carries the answered stamp.
C4_Witness ==
  \E i \in InFlight(Ext) :
    /\ att[Ext][i].status = 200
    /\ att[Ext][i].body.forceOverwrite
    /\ att[Ext][i].body.lastKnownTimestamp = 0
    /\ att[Ext][i].body.project.version = 7
    /\ stored.version = 3
    /\ stored.version = att[Ext][i].data.version
    /\ stored.updatedAt = att[Ext][i].data.timestamp
    /\ stored.title = att[Ext][i].body.project.title

\* C5: every accepted save stores the version of the document it was based on
\* plus one, and over accepted saves the stored version strictly increases.
C5_VersionStrictlyIncreases ==
  [][\A c \in Clients : \A i \in 1 .. MaxExt :
       PutWrite(c, i)
       => /\ stored'.version = att[c][i].serverProject.version + 1
          /\ stored'.version > stored.version]_vars

\* C6: with a document loaded, isDirty = false implies that the document's
\* updatedAt equals lastKnownTimestamp and that the document is exactly the
\* one last loaded from or accepted by the remote (same version, no mutation
\* the remote has not accepted).
C6_CleanMeansSynced ==
  \A s \in Sessions :
    (~IsNull(store[s].project) /\ ~store[s].isDirty)
    => /\ store[s].project.updatedAt = store[s].lastKnownTimestamp
       /\ store[s].project = synced[s]

\* C7: a session never has more than one save request in flight.
C7_SingleFlight ==
  \A s \in Sessions :
    /\ Len(att[s]) <= 1
    /\ Len(att[s]) = 1 => isSavingRef[s]

\* C7 witness: a request is in flight while the store is dirty again and a
\* debounce and a max-staleness timer are pending.
C7_Witness ==
  \E s \in Sessions :
    /\ Len(att[s]) = 1
    /\ att[s][1].mutated
    /\ store[s].isDirty /\ Pending(debounceTimer[s]) /\ Pending(maxTimer[s])

Finished(s, i) ==
  /\ i \in DOMAIN att[s]
  /\ att[s][i].pc = "resp"
  /\ Len(att'[s]) < Len(att[s])

\* C8: the step that ends an attempt in a conflict, an error status or a
\* network error leaves the document, the dirty flag, lastKnownTimestamp and
\* lastSavedAt unchanged and resets the saving flag and the single-flight ref.
C8_FailureKeepsState ==
  [][\A s \in Sessions : \A i \in 1 .. 2 :
       (Finished(s, i) /\ att[s][i].status # 200)
       => /\ store'[s].project = store[s].project
          /\ store'[s].isDirty = store[s].isDirty
          /\ store'[s].lastKnownTimestamp = store[s].lastKnownTimestamp
          /\ store'[s].lastSavedAt = store[s].lastSavedAt
          /\ ~store'[s].isSaving
          /\ ~isSavingRef'[s]
          /\ debounceTimer' = debounceTimer /\ maxTimer' = maxTimer
          /\ synced' = synced]_vars

\* C8 witness: a session holds an edited title, both timers its edit armed
\* have fired, and the attempt they started has ended without marking the
\* store clean: nothing is in flight, the store is dirty and not saving.
C8_Witness ==
  \E s \in Sessions :
    /\ att[s] = <<>>
    /\ store[s].isDirty /\ ~store[s].isSaving /\ ~isSavingRef[s]
    /\ ~Pending(debounceTimer[s]) /\ ~Pending(maxTimer[s])
    /\ store[s].project.title # synced[s].title
    /\ store[s].lastKnownTimestamp = synced[s].updatedAt

\* C9: the step that ends an attempt in a conflict leaves a pending conflict
\* built from the session's document and the 409 response.
C9_ConflictReachesResolver ==
  [][\A s \in Sessions : \A i \in 1 .. 2 :
       SaveConflict(s, i)
       => /\ conflict'[s] # NoConflict
          /\ conflict'[s].localVersion = store[s].project
          /\ conflict'[s].serverVersion = att[s][i].data.serverVersion
          /\ conflict'[s].serverTimestamp = att[s][i].data.serverTimestamp]_vars

IdsOf(q) == {q[k].id : k \in DOMAIN q}

EntityOf(q, id) == q[CHOOSE k \in DOMAIN q : q[k].id = id]

MergeCorrect(l, r, m) ==
  /\ IdsOf(m) = IdsOf(l) \cup IdsOf(r)
  /\ \A x \in IdsOf(l) \ IdsOf(r) : EntityOf(m, x) = EntityOf(l, x)
  /\ \A x \in IdsOf(r) \ IdsOf(l) : EntityOf(m, x) = EntityOf(r, x)
  /\ \A x \in IdsOf(l) \cap IdsOf(r) :
       /\ DateGT(EntityOf(l, x).updatedAt, EntityOf(r, x).updatedAt)
            => EntityOf(m, x) = EntityOf(l, x)
       /\ DateGT(EntityOf(r, x).updatedAt, EntityOf(l, x).updatedAt)
            => EntityOf(m, x) = EntityOf(r, x)

\* C10: the document returned by the merge holds, in each of the six
\* collections, every id of either side, the only copy of an id present on one
\* side, and for an id present on both sides the copy with the greater updatedAt.
C10_MergeUnionNewerWins ==
  [][\A s \in Sessions :
       (ResolveWithMerge(s) /\ conflict[s] # NoConflict)
       => \A c \in AllCollections :
            MergeCorrect(GetCollection(conflict[s].localVersion, c),
                         GetCollection(conflict[s].serverVersion, c),
                         GetCollection(resolved'[s], c))]_vars

\* C10 witness: a merge returned a collection of three entities: id 1 kept
\* from the server (local stamp 0, server stamp 1), id 2 only local, id 3
\* only on the server.
C10_Witness ==
  \E s \in Sessions : \E c \in AllCollections :
    /\ conflict[s] = NoConflict
    /\ resolved[s].version = 3
    /\ GetCollection(resolved[s], c) =
         <<Entity(1, 1, "server"), Entity(3, 0, "server"), Entity(2, 1, "local")>>

\* C11: in the merge, an id present on both sides with identical updatedAt
\* values is represented by the local entity.
C11_TieKeepsLocal ==
  [][\A s \in Sessions :
       (ResolveWithMerge(s) /\ conflict[s] # NoConflict)
       => \A c \in AllCollections :
            LET l == GetCollection(conflict[s].localVersion, c)
                r == GetCollection(conflict[s].serverVersion, c)
                m == GetCollection(resolved'[s], c)
            IN  \A x \in IdsOf(l) \cap IdsOf(r) :
                  ( /\ EntityOf(l, x).updatedAt = EntityOf(r, x).updatedAt
                    /\ EntityOf(l, x).updatedAt # NoDate )
                  => EntityOf(m, x) = EntityOf(l, x)]_vars

ScalarFields == {"title", "description", "genre", "settings"}

\* C12: in the merge, each of title, description, genre and settings of the
\* merged document equals the local value whenever local and remote differ.
C12_ScalarsPreferLocal ==
  [][\A s \in Sessions :
       (ResolveWithMerge(s) /\ conflict[s] # NoConflict)
       => \A f \in ScalarFields :
            conflict[s].localVersion[f] # conflict[s].serverVersion[f]
            => resolved'[s][f] = conflict[s].localVersion[f]]_vars

\* C15: keep-remote returns the remote document verbatim, and after it the
\* session's store holds that document, clean, with lastKnownTimestamp at the
\* remote's timestamp; the remote is unchanged and no request has been issued.
C15_KeepRemoteAdopted ==
  [][\A s \in Sessions :
       (ResolveWithServer(s) /\ conflict[s] # NoConflict)
       => /\ resolved'[s] = conflict[s].serverVersion
          /\ store'[s].project = conflict[s].serverVersion
          /\ ~store'[s].isDirty
          /\ store'[s].lastKnownTimestamp = conflict[s].serverVersion.updatedAt
          /\ stored' = stored
          /\ att' = att]_vars

\* save() is called in this step by one of its triggers.
Trigger(s) ==
  DebounceFire(s) \/ MaxFire(s) \/ OnHide(s) \/ OnBeforeUnload(s) \/ ExplicitSave(s)

\* C16: when the store is clean, a call of save (direct, debounce timer,
\* max-staleness timer, tab hidden / blur, page unload) issues no request and
\* changes no store field.
C16_CleanSaveIsNoOp ==
  [][\A s \in Sessions :
       (~store[s].isDirty /\ Trigger(s))
       => /\ att' = att
          /\ store' = store
          /\ isSavingRef' = isSavingRef
          /\ stored' = stored]_vars

\* C16 witness: a loaded, clean, idle store whose debounce timeout is due now
\* (armed by a mutation that an accepted save has marked clean).
C16_Witness ==
  \E s \in Sessions :
    /\ ~IsNull(store[s].project) /\ ~store[s].isDirty
    /\ att[s] = <<>>
    /\ debounceTimer[s] = clientNow

\* C17: a mutation issues no request and restarts the debounce window; the
\* debounce timeout that fires on a dirty idle store issues exactly one
\* request, carrying the document as it is after the last mutation; when that
\* request is accepted with no mutation since, the store is clean and no
\* timeout is left to start another.
C17_BurstSavedOnce ==
  [][\A s \in Sessions :
       /\ UpdateProjectMeta(s)
            => /\ Len(att'[s]) = Len(att[s])
               /\ debounceTimer'[s] = clientNow + debounceMs
       /\ (DebounceFire(s) /\ store[s].isDirty /\ att[s] = <<>> /\ ~isSavingRef[s])
            => /\ Len(att'[s]) = 1
               /\ att'[s][1].body.project = store[s].project
               /\ ~Pending(debounceTimer'[s])
       /\ \A i \in 1 .. 2 :
            (SaveOk(s, i) /\ ~att[s][i].mutated)
            => /\ att'[s] = <<>>
               /\ ~store'[s].isDirty
               /\ ~Pending(debounceTimer'[s])
               /\ ~Pending(maxTimer'[s])]_vars

\* C17 witness: after a burst of two mutations the only request issued so far
\* has been accepted: it carries the document after the second mutation and
\* the remote holds version 2.
C17_Witness ==
  \E s \in Sessions :
    /\ nOps = 3
    /\ Len(att[s]) = 1
    /\ att[s][1].status = 200 /\ ~att[s][1].mutated
    /\ att[s][1].body.project = store[s].project
    /\ stored.version = 2
    /\ stored.title = store[s].project.title

\* C18: the max-staleness timeout is armed by the mutation that finds none
\* pending and is left as it is by later mutations; when it fires on a dirty
\* idle store it issues a request although a debounce timeout is still
\* pending; a dirty idle store always has one due within resolvedMaxInterval.
C18_MaxStalenessBound ==
  [][\A s \in Sessions :
       /\ UpdateProjectMeta(s)
            => maxTimer'[s] = IF Pending(maxTimer[s]) THEN maxTimer[s]
                              ELSE clientNow + resolvedMaxInterval
       /\ ( /\ MaxFire(s) /\ store[s].isDirty /\ att[s] = <<>> /\ ~isSavingRef[s]
            /\ Pending(debounceTimer[s]) )
            => /\ Len(att'[s]) = 1
               /\ att'[s][1].body.project = store[s].project
       /\ (store'[s].isDirty /\ att'[s] = <<>>)
            => /\ Pending(maxTimer'[s])
               /\ clientNow' <= maxTimer'[s]
               /\ maxTimer'[s] <= clientNow' + resolvedMaxInterval]_vars

\* C18 witness: mutations kept restarting the debounce window, and the
\* max-staleness timeout armed by the first one is due now, resolvedMaxInterval
\* after it, with the debounce timeout still ahead and nothing sent yet.
C18_Witness ==
  \E s \in Sessions :
    /\ store[s].isDirty /\ att[s] = <<>> /\ stored.version = 1
    /\ nOps >= 4
    /\ clientNow = resolvedMaxInterval
    /\ maxTimer[s] = clientNow
    /\ debounceTimer[s] > clientNow

\* C19: a tab-hidden / blur / unload trigger on a dirty idle store with a
\* pending debounce timeout issues a request at once, before that timeout is
\* due, and cancels the timeout.
C19_FlushSavesAtOnce ==
  [][\A s \in Sessions :
       ( /\ OnHide(s) \/ OnBeforeUnload(s)
         /\ store[s].isDirty /\ Pending(debounceTimer[s])
         /\ att[s] = <<>> /\ ~isSavingRef[s] )
       => /\ Len(att'[s]) = 1
          /\ att'[s][1].pc = "sent"
          /\ att'[s][1].body.project = store[s].project
          /\ clientNow' <= debounceTimer[s]
          /\ ~Pending(debounceTimer'[s])
          /\ isSavingRef'[s]]_vars

\* C19 witness: a request is in flight at the very instant of the first
\* mutation (the max-staleness timeout is a full interval ahead), so neither
\* timeout started it, and no debounce timeout is pending.
C19_Witness ==
  \E s \in Sessions :
    /\ Len(att[s]) = 1 /\ att[s][1].pc = "sent" /\ ~att[s][1].mutated
    /\ att[s][1].body.project = store[s].project
    /\ maxTimer[s] = clientNow + resolvedMaxInterval
    /\ ~Pending(debounceTimer[s])
    /\ clientNow > 0

\* C13: once a session has been answered 409 with remoteTimestamp T, the next
\* request it sends is the resolved document with lastKnownTimestamp = T and
\* forceOverwrite = false, so the handler accepts it when it reads a stored
\* document still stamped T.
C13_SaveAfterConflictAccepted ==
  [][\A s \in Sessions : \A i \in 1 .. 2 :
       ( /\ PutRead(s, i)
         /\ lastConflictTs[s] # NullTime
         /\ stored.updatedAt = lastConflictTs[s] )
       => /\ att[s][i].body.lastKnownTimestamp = lastConflictTs[s]
          /\ ~att[s][i].body.forceOverwrite
          /\ att'[s][i].pc = "write"]_vars

\* C14: a request a session issues after it has been answered 409 with
\* remoteTimestamp T is sent with forceOverwrite = true or with
\* lastKnownTimestamp = T.
C14_ResaveForcedOrRebased ==
  [][\A s \in Sessions :
       ( /\ Len(att'[s]) > Len(att[s])
         /\ lastConflictTs[s] # NullTime )
       => LET b == att'[s][Len(att'[s])].body
          IN  b.forceOverwrite \/ b.lastKnownTimestamp = lastConflictTs[s]]_vars

\* C20: the step by which a save attempt marks a dirty store clean leaves
\* lastKnownTimestamp and the document's updatedAt equal to the timestamp, and
\* the document's version equal to the version, that the remote returned for
\* the accepted write.
C20_CleanWithServerValues ==
  [][\A s \in Sessions : \A i \in 1 .. 2 :
       (Finished(s, i) /\ store[s].isDirty /\ ~store'[s].isDirty)
       => /\ store'[s].lastKnownTimestamp = att[s][i].data.timestamp
          /\ store'[s].project.updatedAt = att[s][i].data.timestamp
          /\ store'[s].project.version = att[s][i].data.version]_vars

\* C21: a store mutator called with a document loaded sets isDirty and
\* replaces the document (the subscription sees a new project and restarts
\* the debounce window), leaving lastKnownTimestamp, lastSavedAt, isSaving
\* and the document's updatedAt and version as they were; called with no
\* document loaded it changes nothing in the store or the scheduler.
C21_MutatorFrame ==
  [][\A s \in Sessions :
       Mutator(s)
       => IF IsNull(store[s].project)
          THEN /\ store'[s] = store[s]
               /\ debounceTimer'[s] = debounceTimer[s]
               /\ maxTimer'[s] = maxTimer[s]
               /\ att'[s] = att[s]
          ELSE /\ store'[s].isDirty
               /\ ~IsNull(store'[s].project)
               /\ debounceTimer'[s] = clientNow + debounceMs
               /\ store'[s].lastKnownTimestamp = store[s].lastKnownTimestamp
               /\ store'[s].lastSavedAt = store[s].lastSavedAt
               /\ store'[s].isSaving = store[s].isSaving
               /\ store'[s].project.updatedAt = store[s].project.updatedAt
               /\ store'[s].project.version = store[s].project.version
               /\ store'[s].project.id = store[s].project.id]_vars

\* C21 witness: a character was added and updated while a save was in
\* flight: the store is dirty and saving, and the document still carries the
\* timestamp and version it was loaded with.
C21_Witness ==
  \E s \in Sessions :
    /\ store[s].isDirty /\ store[s].isSaving
    /\ Len(att[s]) = 1 /\ att[s][1].mutated
    /\ Len(store[s].project.characters) = 1
    /\ store[s].project.characters[1].val = "v1"
    /\ store[s].project.updatedAt = 0 /\ store[s].project.version = 1
    /\ store[s].lastKnownTimestamp = 0

\* C22: the step by which the PUT handler stores an accepted document leaves
\* a snapshot of that document, with its version and writer, in the log.
C22_AcceptedSaveSnapshotted ==
  [][\A c \in Clients : \A i \in 1 .. MaxExt :
       PutWrite(c, i)
       => \E x \in snapshots' :
            /\ x.version = stored'.version
            /\ x.savedBy = stored'.updatedBy
            /\ x.snapshot = stored']_vars

\* C23: a restore requested by a caller whose last-known timestamp differs
\* from the stored document's updatedAt does not overwrite the stored document.
C23_StaleRestoreRejected ==
  [][\A lkt \in Times : \A versionId \in 1 .. MaxVersion :
       (RestoreVersion(lkt, versionId) /\ lkt # stored.updatedAt)
       => stored' = stored]_vars

\* C24: after a snapshot write (manual snapshot or the backup of a restore)
\* at most KeepVersions snapshots exist, and every snapshot the write removed
\* is older than every snapshot it retained.
C24_OldestEvicted ==
  [][(ManualSnapshot
        \/ \E lkt \in Times, versionId \in 1 .. MaxVersion :
             RestoreVersion(lkt, versionId))
     => LET written == uploadSnapshot(snapshots, VersionSnapshot(stored, clock))
            removed == written \ snapshots'
        IN  /\ Cardinality(snapshots') <= KeepVersions
            /\ \A r \in removed : \A k \in snapshots' :
                 r.timestamp < k.timestamp]_vars

\* C25: no two snapshots in the log carry the same version, and a snapshot
\* created later carries a strictly greater version.
C25_SnapshotVersionsUnique ==
  \A x \in snapshots : \A y \in snapshots :
    /\ (x # y) => x.version # y.version
    /\ (x.timestamp < y.timestamp) => x.version < y.version

\* C26: a resolveWithLocal / resolveWithServer / resolveWithMerge call made
\* while no conflict is pending throws: the caller gets the error and no
\* document, and conflict and isConflictModalOpen stay as they were.
C26_ResolveWithoutConflictThrows ==
  [][\A s \in Sessions :
       ( /\ conflict[s] = NoConflict
         /\ ResolveWithLocal(s) \/ ResolveWithServer(s) \/ ResolveWithMerge(s) )
       => /\ resolved'[s] = Thrown
          /\ conflict'[s] = NoConflict
          /\ isConflictModalOpen'[s] = isConflictModalOpen[s]]_vars

\* C26 witness: a resolution was called with nothing pending and threw.
C26_Witness ==
  \E s \in Sessions :
    /\ resolved[s] = Thrown
    /\ conflict[s] = NoConflict
    /\ ~isConflictModalOpen[s]

\* C27: a save() call made while no document is loaded raises an error the
\* caller can observe: the promise it returns is rejected.
C27_SaveUnloadedFailsLoudly ==
  [][\A s \in Sessions :
       (ExplicitSaveNoted(s) /\ IsNull(store[s].project))
       => saveResult'[s] = "rejected"]_vars

\* C28: when a save made after a conflict was reported is rejected with a
\* conflict again, the resolver is invoked on the remote document of the new
\* 409 response, and the version a resolution then targets (that document's
\* version + 1) is greater than the version the rejected request carried.
C28_ReconflictResolvedAgain ==
  [][\A s \in Sessions : \A i \in 1 .. 2 :
       (SaveConflictNoted(s, i) /\ lastConflictTs[s] # NullTime)
       => /\ conflict'[s] # NoConflict
          /\ conflict'[s].localVersion = store[s].project
          /\ conflict'[s].serverVersion = att[s][i].data.serverVersion
          /\ conflict'[s].serverVersion.version + 1
               > att[s][i].body.project.version]_vars

\* C29: when an attempt of a dirty session ends in a conflict, an error
\* status or a network error, the store is still dirty and a debounce or
\* max-staleness timeout is pending afterwards.
C29_FailureReturnsToDebouncing ==
  [][\A s \in Sessions : \A i \in 1 .. 2 :
       (Finished(s, i) /\ att[s][i].status # 200 /\ store[s].isDirty)
       => /\ store'[s].isDirty
          /\ Pending(debounceTimer'[s]) \/ Pending(maxTimer'[s])]_vars

\* C30 as stated: when a timeout or an immediate-flush trigger starts a
\* save, no debounce and no max-staleness timeout of the session is pending
\* afterwards.
C30_OtherTimersCancelled ==
  [][\A s \in Sessions :
       (Trigger(s) /\ Len(att'[s]) > Len(att[s]))
       => /\ ~Pending(debounceTimer'[s])
          /\ ~Pending(maxTimer'[s])]_vars

\* C30 amended: when a timeout or an immediate-flush trigger starts a save,
\* no debounce timeout is pending afterwards, while a max-staleness timeout
\* whose delay has not yet elapsed stays pending with its deadline; the step
\* by which the store turns clean leaves none pending.
C30_MaxTimerOutlivesSaveStart ==
  [][\A s \in Sessions :
       /\ (Trigger(s) /\ Len(att'[s]) > Len(att[s]))
            => /\ ~Pending(debounceTimer'[s])
               /\ (Pending(maxTimer[s]) /\ maxTimer[s] > clientNow)
                    => maxTimer'[s] = maxTimer[s]
       /\ (store[s].isDirty /\ ~store'[s].isDirty)
            => ~Pending(maxTimer'[s])]_vars

\* C30 witness: the debounce timeout fired and started a save while the
\* max-staleness timeout armed by the first mutation is still pending.
C30_Witness ==
  \E s \in Sessions :
    /\ Len(att[s]) = 1 /\ att[s][1].pc = "sent" /\ ~att[s][1].mutated
    /\ isSavingRef[s] /\ store[s].isSaving /\ store[s].isDirty
    /\ ~Pending(debounceTimer[s])
    /\ Pending(maxTimer[s]) /\ maxTimer[s] > clientNow
    /\ clientNow >= debounceMs

\* C31: no step decreases the updatedAt of the stored document.
C31_StoredUpdatedAtMonotonic ==
  [][stored'.updatedAt >= stored.updatedAt]_vars

C32_StampChangeBumpsVersion ==
  [][stored'.updatedAt # stored.updatedAt
       => stored'.version = stored.version + 1]_vars

\* C35: no autosave request of the session that is the only writer of the
\* project is answered with a conflict: the lastKnownTimestamp a request
\* carries equals the stored updatedAt when the handler compares them.
C35_OnlyWriterNeverConflicts ==
  \A s \in Sessions : \A i \in DOMAIN att[s] :
    /\ att[s][i].status # 409
    /\ att[s][i].pc = "sent"
         => att[s][i].body.lastKnownTimestamp = stored.updatedAt

\* C34: the step that handles a 409 leaves the session's lastKnownTimestamp
\* as it was, no autosave request carries forceOverwrite, and once a session
\* that loads the project only once has had a conflict, none of its later
\* attempts is accepted.
C34_ConflictPersistsUntilReload ==
  [][\A s \in Sessions : \A i \in 1 .. 2 :
       /\ SaveConflictNoted(s, i)
            => store'[s].lastKnownTimestamp = store[s].lastKnownTimestamp
       /\ i \in DOMAIN att[s] => ~att[s][i].body.forceOverwrite
       /\ (lastConflictTs[s] # NullTime /\ Finished(s, i))
            => att[s][i].status # 200]_vars

\* C36: isSaving is set only while an attempt of the session is in flight,
\* the step that ends an attempt (whatever its outcome) leaves the
\* single-flight ref and isSaving false, and every attempt that starts does
\* end that way.
C36_SaveAlwaysReleases ==
  /\ [](\A s \in Sessions : store[s].isSaving => att[s] # <<>>)
  /\ [][\A s \in Sessions : \A i \in 1 .. 2 :
          Finished(s, i) => ~isSavingRef'[s] /\ ~store'[s].isSaving]_vars
  /\ \A s \in Sessions :
       (isSavingRef[s] \/ store[s].isSaving)
         ~> (~isSavingRef[s] /\ ~store[s].isSaving /\ att[s] = <<>>)

\* C36 witness: the only session that loaded the project had its write
\* stored but answered with an error (it never marked itself clean); the
\* attempt is over and the ref and isSaving are released.
C36_Witness ==
  \E s \in Sessions :
    /\ \A t \in Sessions \ {s} : IsNull(store[t].project)
    /\ ~IsNull(store[s].project) /\ store[s].isDirty
    /\ store[s].lastSavedAt = NullTime
    /\ stored.version = 2
    /\ att[s] = <<>>
    /\ ~isSavingRef[s] /\ ~store[s].isSaving

\* C37: in each merged collection the ids of the result are exactly the ids
\* of the local and the server collection together, each id once; so an
\* entity missing locally (deleted) and present on the server is in the result.
C37_MergeIdsAreUnion ==
  [][\A s \in Sessions :
       (ResolveWithMerge(s) /\ conflict[s] # NoConflict)
       => \A c \in AllCollections :
            LET l == GetCollection(conflict[s].localVersion, c)
                r == GetCollection(conflict[s].serverVersion, c)
                m == GetCollection(resolved'[s], c)
            IN  /\ IdsOf(m) = IdsOf(l) \cup IdsOf(r)
                /\ Len(m) = Cardinality(IdsOf(l) \cup IdsOf(r))
                /\ \A x \in IdsOf(r) \ IdsOf(l) :
                     \E k \in DOMAIN m : m[k] = EntityOf(r, x)]_vars

\* C37 witness: a merge returned a collection holding the server's entity 1,
\* which the local document no longer had, next to the local entity 2.
C37_Witness ==
  \E s \in Sessions : \E c \in AllCollections :
    /\ conflict[s] = NoConflict
    /\ resolved[s].version = 3
    /\ GetCollection(resolved[s], c) =
         <<Entity(1, 0, "server"), Entity(2, 0, "local")>>

\* C38: the snapshot that a call of createVersionSnapshot writes (by a manual
\* snapshot or as the backup of a restore) is in the log when the call is over.
C38_WrittenSnapshotKept ==
  [][(ManualSnapshot
        \/ \E lkt \in Times, versionId \in 1 .. MaxVersion :
             RestoreVersion(lkt, versionId))
     => VersionSnapshot(stored, clock) \in snapshots']_vars

\* C39: after every mutation of a loaded document, whether or not the hook
\* was re-subscribed before, a max-staleness timeout is pending that is due
\* within the max interval.
C39_MaxTimerArmedAfterResubscribe ==
  [][\A s \in Sessions :
       (store'[s].project # store[s].project /\ store'[s].isDirty)
       => /\ Pending(maxTimer'[s])
          /\ maxTimer'[s] <= clientNow + resolvedMaxInterval]_vars

====
